---- MODULE Spec2Model ----
(***************************************************************************)
(* Plan executor of simple-workflow (run-plan.ts): the plan parser         *)
(* parsePlanContent, the per-TODO worker/review loop processTodo and the   *)
(* driver loop of program.                                                 *)
(*                                                                         *)
(* A text is a sequence of one-character strings; "\n" separates lines.    *)
(* Indices of todos are 0-based as in the source: the todo with index i is *)
(* todos[i + 1] of the TLA+ sequence.                                      *)
(***************************************************************************)
EXTENDS Integers, Sequences, FiniteSets, TLC

(***************************************************************************)
(* Bounds of the model.                                                    *)
(***************************************************************************)
\* most checklist lines of a plan document
MaxTodos == 3
\* largest value of --max-iterations-per-todo that is tried
MaxIterations == 2
\* most sessions the agent service hands out in one run
MaxSessions == 4
\* most rewrites of the plan file by an actor other than worker and reviewer
MaxExternalEdits == 1
\* most lines of a text handed to parsePlanContent by itself
MaxLines == 4

(***************************************************************************)
(* Option.Option<number>                                                   *)
(***************************************************************************)
None == <<>>
Some(i) == <<i>>
isSome(o) == o # <<>>

(***************************************************************************)
(* Strings of the source, as character sequences.                          *)
(***************************************************************************)
TodoHeading == <<"#", "#", " ", "T", "O", "D", "O">>
HeadingPrefix == <<"#", "#", " ">>
FeedbackMarker ==
    <<"r", "e", "v", "i", "e", "w", ":", " ", "s", "t", "a", "t", "u", "s", "=",
      "r", "e", "q", "u", "e", "s", "t", "_", "c", "h", "a", "n", "g", "e", "s">>
\* characters the regular expression's "." does not match
LineTerminators == {"\n", "\r"}

\* String.prototype.split("\n"): the pieces between consecutive "\n", in order;
\* the k-th piece starts after the (k-1)-th "\n" and ends before the k-th
split(content) ==
    LET n == Len(content)
        breaks == {i \in 1..n : content[i] = "\n"}
        ends == breaks \cup {n + 1}
        endOf(k) == CHOOSE e \in ends : Cardinality({b \in ends : b < e}) = k - 1
        startOf(k) == IF k = 1 THEN 1 ELSE endOf(k - 1) + 1
    IN  [k \in 1..Cardinality(ends) |-> SubSeq(content, startOf(k), endOf(k) - 1)]

\* String.prototype.startsWith
startsWith(line, prefix) ==
    /\ Len(line) >= Len(prefix)
    /\ SubSeq(line, 1, Len(prefix)) = prefix

\* variant: the marker is looked for at the start of the line only
includes_AtStart(line, sub) == startsWith(line, sub)

\* String.prototype.includes
includes(line, sub) ==
    \E i \in 1..(Len(line) - Len(sub) + 1) : SubSeq(line, i, i + Len(sub) - 1) = sub

\* the capture of "(.+)": the longest run of characters "." matches
RECURSIVE dotPlus(_, _)
dotPlus(line, i) ==
    IF i > Len(line) \/ line[i] \in LineTerminators THEN <<>>
    ELSE <<line[i]>> \o dotPlus(line, i + 1)

\* line.match(/^- \[c\] (.+)/) for c in marks: <<capture>> on a match, <<>> on none
checkboxMatch(line, marks) ==
    IF /\ Len(line) >= 7
       /\ SubSeq(line, 1, 3) = <<"-", " ", "[">>
       /\ line[4] \in marks
       /\ SubSeq(line, 5, 6) = <<"]", " ">>
       /\ dotPlus(line, 7) # <<>>
    THEN <<dotPlus(line, 7)>>
    ELSE <<>>

doneMatch(line) == checkboxMatch(line, {"x", "X"})
todoMatch(line) == checkboxMatch(line, {" "})

\* variant: the blocked mark is the capital letter only
blockedMatch_CapitalOnly(line) == checkboxMatch(line, {"B"})

blockedMatch(line) == checkboxMatch(line, {"B", "b"})

\* variant: a blocked todo counts as done too
TodoItem_BlockedIsDone(text, done, blocked, hasReviewFeedback) ==
    [text |-> text, done |-> done \/ blocked, blocked |-> blocked,
     hasReviewFeedback |-> hasReviewFeedback]

TodoItem(text, done, blocked, hasReviewFeedback) ==
    [text |-> text, done |-> done, blocked |-> blocked,
     hasReviewFeedback |-> hasReviewFeedback]

\* variant: the last line under a todo decides its flag
parseLine_LastLineDecides(st, line) ==
    IF startsWith(line, TodoHeading)
    THEN [st EXCEPT !.inTodoSection = TRUE]
    ELSE IF st.inTodoSection /\ startsWith(line, HeadingPrefix)
    THEN [st EXCEPT !.todos = st.todos \o st.currentTodo, !.stop = TRUE]
    ELSE IF st.inTodoSection
    THEN IF doneMatch(line) # <<>> \/ todoMatch(line) # <<>> \/ blockedMatch(line) # <<>>
         THEN [st EXCEPT
                 !.todos = st.todos \o st.currentTodo,
                 !.currentTodo =
                     IF doneMatch(line) # <<>>
                     THEN <<TodoItem(doneMatch(line)[1], TRUE, FALSE, FALSE)>>
                     ELSE IF todoMatch(line) # <<>>
                     THEN <<TodoItem(todoMatch(line)[1], FALSE, FALSE, FALSE)>>
                     ELSE <<TodoItem(blockedMatch(line)[1], FALSE, TRUE, FALSE)>>]
         ELSE IF st.currentTodo # <<>>
         THEN [st EXCEPT !.currentTodo =
                 <<TodoItem(st.currentTodo[1].text, st.currentTodo[1].done,
                            st.currentTodo[1].blocked, includes(line, FeedbackMarker))>>]
         ELSE st
    ELSE st

\* variant: a checklist line with the marker in its text opens a todo with the flag
parseLine_MarkerInText(st, line) ==
    IF startsWith(line, TodoHeading)
    THEN [st EXCEPT !.inTodoSection = TRUE]
    ELSE IF st.inTodoSection /\ startsWith(line, HeadingPrefix)
    THEN [st EXCEPT !.todos = st.todos \o st.currentTodo, !.stop = TRUE]
    ELSE IF st.inTodoSection
    THEN IF doneMatch(line) # <<>> \/ todoMatch(line) # <<>> \/ blockedMatch(line) # <<>>
         THEN [st EXCEPT
                 !.todos = st.todos \o st.currentTodo,
                 !.currentTodo =
                     IF doneMatch(line) # <<>>
                     THEN <<TodoItem(doneMatch(line)[1], TRUE, FALSE,
                                     includes(line, FeedbackMarker))>>
                     ELSE IF todoMatch(line) # <<>>
                     THEN <<TodoItem(todoMatch(line)[1], FALSE, FALSE,
                                     includes(line, FeedbackMarker))>>
                     ELSE <<TodoItem(blockedMatch(line)[1], FALSE, TRUE,
                                     includes(line, FeedbackMarker))>>]
         ELSE IF st.currentTodo # <<>> /\ includes(line, FeedbackMarker)
         THEN [st EXCEPT !.currentTodo =
                 <<TodoItem(st.currentTodo[1].text, st.currentTodo[1].done,
                            st.currentTodo[1].blocked, TRUE)>>]
         ELSE st
    ELSE st

\* One pass of the for loop over the lines. st.currentTodo is <<>> for null and
\* <<todo>> otherwise; st.stop is the break.
parseLine(st, line) ==
    IF startsWith(line, TodoHeading)
    THEN [st EXCEPT !.inTodoSection = TRUE]
    ELSE IF st.inTodoSection /\ startsWith(line, HeadingPrefix)
    THEN [st EXCEPT !.todos = st.todos \o st.currentTodo, !.stop = TRUE]
    ELSE IF st.inTodoSection
    THEN IF doneMatch(line) # <<>> \/ todoMatch(line) # <<>> \/ blockedMatch(line) # <<>>
         THEN [st EXCEPT
                 !.todos = st.todos \o st.currentTodo,
                 !.currentTodo =
                     IF doneMatch(line) # <<>>
                     THEN <<TodoItem(doneMatch(line)[1], TRUE, FALSE, FALSE)>>
                     ELSE IF todoMatch(line) # <<>>
                     THEN <<TodoItem(todoMatch(line)[1], FALSE, FALSE, FALSE)>>
                     ELSE <<TodoItem(blockedMatch(line)[1], FALSE, TRUE, FALSE)>>]
         ELSE IF st.currentTodo # <<>> /\ includes(line, FeedbackMarker)
         THEN [st EXCEPT !.currentTodo =
                 <<TodoItem(st.currentTodo[1].text, st.currentTodo[1].done,
                            st.currentTodo[1].blocked, TRUE)>>]
         ELSE st
    ELSE st

RECURSIVE parseLines(_, _, _)
parseLines(lines, i, st) ==
    IF i > Len(lines) \/ st.stop THEN st
    ELSE parseLines(lines, i + 1, parseLine(st, lines[i]))

\* variant: the first index with todos[i] not done, blocked or not
nextTodoIndexFrom_NotDone(todos, i) ==
    LET open == {k \in i..(Len(todos) - 1) : ~todos[k + 1].done}
    IN  IF open = {} THEN None ELSE Some(CHOOSE k \in open : \A j \in open : k <= j)

\* the first index i (0-based) with todos[i] neither done nor blocked
RECURSIVE nextTodoIndexFrom(_, _)
nextTodoIndexFrom(todos, i) ==
    IF i >= Len(todos) THEN None
    ELSE IF ~todos[i + 1].done /\ ~todos[i + 1].blocked THEN Some(i)
    ELSE nextTodoIndexFrom(todos, i + 1)

\* variant: allDone of an empty list is true
parsePlanContent_EmptyAllDone(content) ==
    LET st == parseLines(split(content), 1,
                         [todos |-> <<>>, inTodoSection |-> FALSE,
                          currentTodo |-> <<>>, stop |-> FALSE])
        todos == st.todos \o st.currentTodo
    IN  [todos |-> todos,
         allDone |-> \A k \in 1..Len(todos) : todos[k].done,
         hasBlocked |-> \E k \in 1..Len(todos) : todos[k].blocked,
         nextTodoIndex |-> nextTodoIndexFrom(todos, 0)]

parsePlanContent(content) ==
    LET st == parseLines(split(content), 1,
                         [todos |-> <<>>, inTodoSection |-> FALSE,
                          currentTodo |-> <<>>, stop |-> FALSE])
        todos == st.todos \o st.currentTodo
    IN  [todos |-> todos,
         allDone |-> Len(todos) > 0 /\ \A k \in 1..Len(todos) : todos[k].done,
         hasBlocked |-> \E k \in 1..Len(todos) : todos[k].blocked,
         nextTodoIndex |-> nextTodoIndexFrom(todos, 0)]

(***************************************************************************)
(* Plan documents of the run: the "## TODO" section with up to MaxTodos    *)
(* checklist lines, each optionally followed by a review annotation, and   *)
(* the "## Progress Log" heading that follows the section in a plan.       *)
(***************************************************************************)
NL == <<"\n">>
ProgressHeading ==
    <<"#", "#", " ", "P", "r", "o", "g", "r", "e", "s", "s", " ", "L", "o", "g">>
FeedbackLine == <<" ", " ">> \o FeedbackMarker
TaskLine(mark) == <<"-", " ", "[", mark, "]", " ", "t">>

\* a checklist line is pending, done or blocked; pending and done ones may
\* carry review feedback
TaskKinds ==
    {[mark |-> " ", fb |-> FALSE], [mark |-> " ", fb |-> TRUE],
     [mark |-> "x", fb |-> FALSE], [mark |-> "x", fb |-> TRUE],
     [mark |-> "B", fb |-> FALSE]}

RECURSIVE renderTasks(_, _)
renderTasks(kinds, i) ==
    IF i > Len(kinds) THEN <<>>
    ELSE TaskLine(kinds[i].mark) \o NL
         \o (IF kinds[i].fb THEN FeedbackLine \o NL ELSE <<>>)
         \o renderTasks(kinds, i + 1)

Render(kinds) == TodoHeading \o NL \o renderTasks(kinds, 1) \o ProgressHeading \o NL

PlanDocs == UNION {{Render(k) : k \in [1..n -> TaskKinds]} : n \in 0..MaxTodos}

\* the plan file does not exist
NoFile == <<"ENOENT">>

\* a and b are the same lines but for one line replaced, inserted or removed
oneLineApart(a, b) ==
    LET changed(x, y) ==
            /\ Len(x) = Len(y)
            /\ Cardinality({i \in 1..Len(x) : x[i] # y[i]}) = 1
        inserted(x, y) ==
            /\ Len(y) = Len(x) + 1
            /\ \E i \in 1..Len(y) :
                  x = SubSeq(y, 1, i - 1) \o SubSeq(y, i + 1, Len(y))
    IN  changed(a, b) \/ inserted(a, b) \/ inserted(b, a)

\* the lines of every plan document
planLines == [d \in PlanDocs |-> split(d)]

\* what one edit by hand makes of a plan: one line changed, or the file removed
HandEdits ==
    [d \in PlanDocs |->
        {e \in PlanDocs : oneLineApart(planLines[d], planLines[e])} \cup {NoFile}]

(***************************************************************************)
(* PROMPTS                                                                 *)
(***************************************************************************)
PROMPTS ==
    [worker |-> "./commands/worker.md", resume |-> "./commands/resume.md",
     review |-> "./commands/review.md",
     resumeReview |-> "./commands/resume-review.md"]

(***************************************************************************)
(* The decisions of processTodo and of the driver loop.                    *)
(***************************************************************************)
\* state.todos[todoIndex]?.done
todoDone(state, todoIndex) ==
    todoIndex + 1 <= Len(state.todos) /\ state.todos[todoIndex + 1].done

\* variant: the body of the loop runs once before the limit is looked at
withinIterations_AtLeastOnce(iteration, maxIter) ==
    iteration = 1 \/ iteration <= maxIter

\* variant: the loop goes on for one iteration more
withinIterations_OneMore(iteration, maxIter) == iteration <= maxIter + 1

\* variant: the loop stops one iteration early
withinIterations_Strict(iteration, maxIter) == iteration < maxIter

\* the condition of the for loop
withinIterations(iteration, maxIter) == iteration <= maxIter

\* variant: only a worker that has run before is resumed
needsResume_AfterFirstRunOnly(isFirstWorker, hasFeedback) == ~isFirstWorker

needsResume(isFirstWorker, hasFeedback) ==
    ~isFirstWorker \/ (hasFeedback /\ isFirstWorker)

\* variant: the worker is never resumed
workerPromptPath_AlwaysFresh(isFirstWorker, hasFeedback) == PROMPTS.worker

workerPromptPath(isFirstWorker, hasFeedback) ==
    IF needsResume(isFirstWorker, hasFeedback) THEN PROMPTS.resume ELSE PROMPTS.worker

\* variant: the reviewer is never resumed
reviewPromptPath_AlwaysReview(isFirstReview) == PROMPTS.review

reviewPromptPath(isFirstReview) ==
    IF isFirstReview THEN PROMPTS.review ELSE PROMPTS.resumeReview

\* variant: the iteration does not look at hasBlocked
beforeWorker_NoBlockedCheck(stateBefore, idx) ==
    IF ~todoDone(stateBefore, idx) THEN "worker" ELSE "review"

\* variant: only a blocked marker on the todo in hand stops the iteration
beforeWorker_BlockedTargetOnly(stateBefore, idx) ==
    IF idx + 1 <= Len(stateBefore.todos) /\ stateBefore.todos[idx + 1].blocked
    THEN "blocked"
    ELSE IF ~todoDone(stateBefore, idx) THEN "worker"
    ELSE "review"

\* what an iteration does after its first parse
beforeWorker(stateBefore, idx) ==
    IF stateBefore.hasBlocked THEN "blocked"
    ELSE IF ~todoDone(stateBefore, idx) THEN "worker"
    ELSE "review"

\* variant: the parse after the worker does not look at hasBlocked
afterWorkerStep_NoBlockedCheck(afterWorker, idx) ==
    IF ~todoDone(afterWorker, idx) THEN "worker_incomplete" ELSE "review"

\* variant: a todo the worker left unchecked goes to review
afterWorkerStep_NoDoneCheck(afterWorker, idx) ==
    IF afterWorker.hasBlocked THEN "worker_blocked" ELSE "review"

\* what it does after the parse that follows the worker
afterWorkerStep(afterWorker, idx) ==
    IF afterWorker.hasBlocked THEN "worker_blocked"
    ELSE IF ~todoDone(afterWorker, idx) THEN "worker_incomplete"
    ELSE "review"

\* variant: no approval while the todo carries review feedback
afterReviewStep_UnlessFeedback(afterReview, idx) ==
    IF /\ todoDone(afterReview, idx)
       /\ ~afterReview.todos[idx + 1].hasReviewFeedback
    THEN "approved" ELSE "changes_requested"

\* variant: no approval while the plan has a blocked todo
afterReviewStep_UnlessBlocked(afterReview, idx) ==
    IF todoDone(afterReview, idx) /\ ~afterReview.hasBlocked
    THEN "approved" ELSE "changes_requested"

\* what it does after the parse that follows the reviewer
afterReviewStep(afterReview, idx) ==
    IF todoDone(afterReview, idx) THEN "approved" ELSE "changes_requested"

\* variant: the driver goes on after max_iterations
afterProcessTodo_IgnoresMax(res) ==
    IF res = "blocked" THEN "stop_blocked" ELSE "continue"

\* the driver after processTodo returned
afterProcessTodo(res) ==
    IF res = "blocked" THEN "stop_blocked"
    ELSE IF res = "max_iterations" THEN "stop_max_iterations"
    ELSE "continue"

\* variant: the driver stays on the index it had
nextIndex_Same(nextState, previousIndex) == Some(previousIndex)

\* variant: the driver steps to the next index
nextIndex_Increment(nextState, previousIndex) == Some(previousIndex + 1)

\* the driver's next index after an approved todo
nextIndex(nextState, previousIndex) == nextState.nextTodoIndex

\* the counts of logStatus and of the final status
RECURSIVE countIf(_, _, _)
countIf(todos, i, kind) ==
    IF i > Len(todos) THEN 0
    ELSE (IF \/ kind = "done" /\ todos[i].done
             \/ kind = "pending" /\ ~todos[i].done /\ ~todos[i].blocked
             \/ kind = "blocked" /\ todos[i].blocked
          THEN 1 ELSE 0) + countIf(todos, i + 1, kind)

\* variant: blocked todos are counted as pending too
statusCounts_PendingNotDone(state) ==
    [total |-> Len(state.todos), done |-> countIf(state.todos, 1, "done"),
     pending |-> Len(state.todos) - countIf(state.todos, 1, "done"),
     blocked |-> countIf(state.todos, 1, "blocked")]

statusCounts(state) ==
    [total |-> Len(state.todos), done |-> countIf(state.todos, 1, "done"),
     pending |-> countIf(state.todos, 1, "pending"),
     blocked |-> countIf(state.todos, 1, "blocked")]

(***************************************************************************)
(* The run.                                                                *)
(***************************************************************************)
VARIABLES
    doc,                  \* the text of the plan file, or NoFile
    hasArgs,              \* process.argv has a positional argument
    maxIterationsPerTodo, \* config.maxIterationsPerTodo
    pc,                   \* where the program is
    currentIndex,         \* program: currentIndex
    todoIndex,            \* processTodo: todoIndex
    hasExistingFeedback,  \* processTodo: hasExistingFeedback
    workerSessionId,      \* processTodo: workerSessionId (0: none yet)
    reviewerSessionId,    \* processTodo: reviewerSessionId (0: none yet)
    iteration,            \* processTodo: iteration
    isFirstWorkerRun,     \* processTodo: isFirstWorkerRun
    isFirstReviewRun,     \* processTodo: isFirstReviewRun
    result,               \* the value processTodo returned last ("none": nothing yet)
    inflight,             \* the prompt a session is running: <<>> or <<[session, prompt, role]>>
    nSessions,            \* sessions the service has created
    lastLog,              \* the console: the last message of the run
    tally,                \* the console: the counts of the status report that closes the run
                          \* (<<>> while there is none)
    outcome,              \* how the process ended ("running" before)
    sawBlocked,           \* history: some parse of this run had hasBlocked
    workerRuns,           \* history: worker prompts sent for the current todo
    reviewRuns,           \* history: reviewer prompts sent for the current todo
    sentTo,               \* history: the sessions sent a prompt for the current todo, by role
    extEdits,             \* history: rewrites of the plan file by other actors
    callFailed,           \* history: a createSession or a prompt call of the run has failed
    argText,              \* the argument of a call of parsePlanContent taken by itself
    planState             \* what that call returned: <<>> before, <<PlanState>> after

vars ==
    <<doc, hasArgs, maxIterationsPerTodo, pc, currentIndex, todoIndex,
      hasExistingFeedback, workerSessionId, reviewerSessionId, iteration,
      isFirstWorkerRun, isFirstReviewRun, result, inflight, nSessions, lastLog,
      tally, outcome, sawBlocked, workerRuns, reviewRuns, sentTo, extEdits,
      callFailed, argText, planState>>

config == <<hasArgs, maxIterationsPerTodo>>
callVars == <<argText, planState>>
todoVars ==
    <<todoIndex, hasExistingFeedback, workerSessionId, reviewerSessionId, iteration,
      isFirstWorkerRun, isFirstReviewRun, workerRuns, reviewRuns, sentTo>>

\* the snapshot of every plan document
parsedPlans == [d \in PlanDocs |-> parsePlanContent(d)]

\* parsePlan(config.planPath) of a file that exists
parsePlan == parsedPlans[doc]

Init ==
    /\ doc \in PlanDocs \cup {NoFile}
    /\ hasArgs \in BOOLEAN
    /\ maxIterationsPerTodo \in 0..MaxIterations
    /\ pc = "start"
    /\ currentIndex = None
    /\ todoIndex = 0
    /\ hasExistingFeedback = FALSE
    /\ workerSessionId = 0
    /\ reviewerSessionId = 0
    /\ iteration = 1
    /\ isFirstWorkerRun = TRUE
    /\ isFirstReviewRun = TRUE
    /\ result = "none"
    /\ inflight = <<>>
    /\ nSessions = 0
    /\ lastLog = "none"
    /\ tally = <<>>
    /\ outcome = "running"
    /\ sawBlocked = FALSE
    /\ workerRuns = 0
    /\ reviewRuns = 0
    /\ sentTo = [worker |-> {}, reviewer |-> {}]
    /\ extEdits = 0
    /\ callFailed = FALSE
    /\ argText = <<>>
    /\ planState = <<>>

\* the run ends: a return of program, or an error caught at the top level
Ends(how, log) ==
    /\ pc' = "done"
    /\ outcome' = how
    /\ lastLog' = log

\* program without arguments: the usage text
Usage ==
    /\ pc = "start"
    /\ ~hasArgs
    /\ Ends("usage", "usage")
    /\ UNCHANGED <<doc, config, callVars, callFailed, currentIndex, todoVars, result,
                   inflight, nSessions,
                   tally, sawBlocked, extEdits>>

\* variant: parsePlan writes an empty plan where there is no file and goes on
PlanNotFound_WritesEmptyPlan ==
    /\ \/ pc = "start" /\ hasArgs
       \/ pc = "loop" /\ isSome(currentIndex)
       \/ pc = "iteration" /\ withinIterations(iteration, maxIterationsPerTodo)
       \/ pc \in {"afterWorker", "afterReview", "final"}
       \/ pc = "returned" /\ afterProcessTodo(result) = "continue"
    /\ doc = NoFile
    /\ doc' = Render(<<>>)
    /\ UNCHANGED <<config, callVars, callFailed, pc, outcome, lastLog, currentIndex,
                   todoVars, result, inflight, nSessions, tally, sawBlocked, extEdits>>

\* readFile fails in a parsePlan: PlanNotFoundError
PlanNotFound ==
    /\ \/ pc = "start" /\ hasArgs
       \/ pc = "loop" /\ isSome(currentIndex)
       \/ pc = "iteration" /\ withinIterations(iteration, maxIterationsPerTodo)
       \/ pc \in {"afterWorker", "afterReview", "final"}
       \/ pc = "returned" /\ afterProcessTodo(result) = "continue"
    /\ doc = NoFile
    /\ Ends("PlanNotFoundError", "plan_not_found")
    /\ UNCHANGED <<doc, config, callVars, callFailed, currentIndex, todoVars, result,
                   inflight, nSessions,
                   tally, sawBlocked, extEdits>>

\* program up to the driver loop: the initial parse, logStatus, the two early
\* returns and createOpencode
InitialParse ==
    /\ pc = "start"
    /\ hasArgs
    /\ doc # NoFile
    /\ LET initialState == parsePlan IN
        /\ sawBlocked' = initialState.hasBlocked
        /\ IF initialState.allDone
           THEN /\ Ends("returned", "all_complete")
                /\ tally' = <<statusCounts(initialState)>>
                /\ UNCHANGED currentIndex
           ELSE IF initialState.hasBlocked
           THEN /\ Ends("returned", "plan_blocked")
                /\ tally' = <<statusCounts(initialState)>>
                /\ UNCHANGED currentIndex
           ELSE \* the counts of logStatus are followed by the output of the run
                /\ tally' = <<>>
                /\ \/ /\ pc' = "loop"
                      /\ currentIndex' = initialState.nextTodoIndex
                      /\ lastLog' = "opencode_ready"
                      /\ UNCHANGED outcome
                   \/ Ends("OpenCodeError", "opencode_error") /\ UNCHANGED currentIndex
    /\ UNCHANGED <<doc, config, callVars, callFailed, todoVars, result, inflight,
                   nSessions, extEdits>>

\* the head of the while loop, the parse of the round and the call of processTodo
LoopHead ==
    /\ pc = "loop"
    /\ IF ~isSome(currentIndex)
       THEN /\ pc' = "final"
            /\ UNCHANGED <<todoIndex, hasExistingFeedback, lastLog, outcome, sawBlocked>>
       ELSE /\ doc # NoFile
            /\ LET state == parsePlan
                   idx == currentIndex[1]
               IN  /\ sawBlocked' = (sawBlocked \/ state.hasBlocked)
                   /\ IF idx + 1 > Len(state.todos)
                      THEN \* todo is undefined: todo.text throws a TypeError
                           /\ Ends("defect", "fatal_error")
                           /\ UNCHANGED <<todoIndex, hasExistingFeedback>>
                      ELSE /\ todoIndex' = idx
                           /\ hasExistingFeedback' = state.todos[idx + 1].hasReviewFeedback
                           /\ pc' = "createWorker"
                           /\ lastLog' = "todo_header"
                           /\ UNCHANGED outcome
    /\ UNCHANGED <<doc, config, callVars, callFailed, currentIndex, workerSessionId,
                   reviewerSessionId,
                   iteration, isFirstWorkerRun, isFirstReviewRun, workerRuns,
                   reviewRuns, sentTo, result, inflight, nSessions, tally, extEdits>>

\* variant: the service hands out the id of the last session again
newSessionId_Reused == IF nSessions = 0 THEN 1 ELSE nSessions

\* createSession
newSessionId == nSessions + 1

\* processTodo: const workerSession = yield* createSession(instance)
CreateWorkerSession ==
    /\ pc = "createWorker"
    /\ nSessions < MaxSessions
    /\ \/ /\ nSessions' = nSessions + 1
          /\ workerSessionId' = newSessionId
          /\ pc' = "createReviewer"
          /\ UNCHANGED <<outcome, lastLog, callFailed>>
       \/ /\ Ends("OpenCodeError", "opencode_error")
          /\ callFailed' = TRUE
          /\ UNCHANGED <<nSessions, workerSessionId>>
    /\ UNCHANGED <<doc, config, callVars, currentIndex, todoIndex, hasExistingFeedback,
                   reviewerSessionId, iteration, isFirstWorkerRun, isFirstReviewRun,
                   workerRuns, reviewRuns, sentTo, result, inflight, tally, sawBlocked,
                   extEdits>>

\* processTodo: const reviewerSession = yield* createSession(instance), and the
\* initialisation of the loop
CreateReviewerSession ==
    /\ pc = "createReviewer"
    /\ nSessions < MaxSessions
    /\ \/ /\ nSessions' = nSessions + 1
          /\ reviewerSessionId' = newSessionId
          /\ isFirstWorkerRun' = TRUE
          /\ isFirstReviewRun' = TRUE
          /\ iteration' = 1
          /\ workerRuns' = 0
          /\ reviewRuns' = 0
          /\ sentTo' = [worker |-> {}, reviewer |-> {}]
          /\ pc' = "iteration"
          /\ UNCHANGED <<outcome, lastLog, callFailed>>
       \/ /\ Ends("OpenCodeError", "opencode_error")
          /\ callFailed' = TRUE
          /\ UNCHANGED <<nSessions, reviewerSessionId, isFirstWorkerRun,
                         isFirstReviewRun, iteration, workerRuns, reviewRuns, sentTo>>
    /\ UNCHANGED <<doc, config, callVars, currentIndex, todoIndex, hasExistingFeedback,
                   workerSessionId, result, inflight, tally, sawBlocked, extEdits>>

\* processTodo returns res
Returns(res, log) ==
    /\ pc' = "returned"
    /\ result' = res
    /\ lastLog' = log
    /\ UNCHANGED <<inflight, workerRuns, reviewRuns, sentTo, outcome>>

\* loadPrompt of the worker's prompt and the start of sendPrompt to the worker session
SendsWorkerPrompt ==
    \/ /\ inflight' = <<[session |-> workerSessionId,
                         prompt |-> workerPromptPath(isFirstWorkerRun, hasExistingFeedback),
                         role |-> "worker"]>>
       /\ workerRuns' = workerRuns + 1
       /\ sentTo' = [sentTo EXCEPT !.worker = @ \cup {workerSessionId}]
       /\ pc' = "worker"
       /\ lastLog' = "worker_role"
       /\ UNCHANGED <<reviewRuns, result, outcome>>
    \/ /\ Ends("PromptNotFoundError", "prompt_not_found")
       /\ UNCHANGED <<inflight, workerRuns, reviewRuns, sentTo, result>>

\* loadPrompt of the reviewer's prompt and the start of sendPrompt to the reviewer session
SendsReviewPrompt ==
    \/ /\ inflight' = <<[session |-> reviewerSessionId,
                         prompt |-> reviewPromptPath(isFirstReviewRun),
                         role |-> "reviewer"]>>
       /\ reviewRuns' = reviewRuns + 1
       /\ sentTo' = [sentTo EXCEPT !.reviewer = @ \cup {reviewerSessionId}]
       /\ pc' = "reviewer"
       /\ lastLog' = "reviewer_role"
       /\ UNCHANGED <<workerRuns, result, outcome>>
    \/ /\ Ends("PromptNotFoundError", "prompt_not_found")
       /\ UNCHANGED <<inflight, workerRuns, reviewRuns, sentTo, result>>

\* variant: a todo found done at the head of an iteration is approved as it is
Iteration_DoneIsApproved ==
    /\ pc = "iteration"
    /\ IF ~withinIterations(iteration, maxIterationsPerTodo)
       THEN Returns("max_iterations", "max_iterations") /\ UNCHANGED sawBlocked
       ELSE /\ doc # NoFile
            /\ sawBlocked' = (sawBlocked \/ parsePlan.hasBlocked)
            /\ IF beforeWorker(parsePlan, todoIndex) = "blocked"
               THEN Returns("blocked", "iteration")
               ELSE IF beforeWorker(parsePlan, todoIndex) = "worker"
               THEN SendsWorkerPrompt
               ELSE Returns("approved", "approved")
    /\ UNCHANGED <<doc, config, callVars, callFailed, currentIndex, todoIndex,
                   hasExistingFeedback,
                   workerSessionId, reviewerSessionId, iteration, isFirstWorkerRun,
                   isFirstReviewRun, nSessions, tally, extEdits>>

\* processTodo: the head of the for loop, the parse of stateBefore, the blocked
\* check and the start of the worker (or of the reviewer when the todo is done)
Iteration ==
    /\ pc = "iteration"
    /\ IF ~withinIterations(iteration, maxIterationsPerTodo)
       THEN Returns("max_iterations", "max_iterations") /\ UNCHANGED sawBlocked
       ELSE /\ doc # NoFile
            /\ LET stateBefore == parsePlan
                   step == beforeWorker(stateBefore, todoIndex)
               IN  /\ sawBlocked' = (sawBlocked \/ stateBefore.hasBlocked)
                   /\ IF step = "blocked" THEN Returns("blocked", "iteration")
                      ELSE IF step = "worker" THEN SendsWorkerPrompt
                      ELSE SendsReviewPrompt
    /\ UNCHANGED <<doc, config, callVars, callFailed, currentIndex, todoIndex,
                   hasExistingFeedback,
                   workerSessionId, reviewerSessionId, iteration, isFirstWorkerRun,
                   isFirstReviewRun, nSessions, tally, extEdits>>

\* the text parts of a session's answer, which sendPrompt writes to the console
SessionTexts == {"review: status=approved", "review: status=request_changes"}

\* variant: the program goes on while the worker's prompt still runs
WorkerCompletes_NotAwaited ==
    /\ pc = "worker"
    /\ doc' \in PlanDocs
    /\ isFirstWorkerRun' = FALSE
    /\ pc' = "afterWorker"
    /\ lastLog' \in SessionTexts
    /\ UNCHANGED <<config, callVars, callFailed, outcome, inflight, currentIndex,
                   todoIndex, hasExistingFeedback, workerSessionId, reviewerSessionId,
                   iteration, isFirstReviewRun, workerRuns, reviewRuns, sentTo, result,
                   nSessions, tally, sawBlocked, extEdits>>

\* sendPrompt to the worker session comes back. The call resolves with the
\* session's answer (the worker has rewritten the plan), or it resolves with an
\* error in the response, which sendPrompt does not look at, or it rejects.
WorkerCompletes ==
    /\ pc = "worker"
    /\ \/ /\ doc' \in PlanDocs
          /\ inflight' = <<>>
          /\ isFirstWorkerRun' = FALSE
          /\ pc' = "afterWorker"
          /\ lastLog' \in SessionTexts
          /\ UNCHANGED <<outcome, callFailed>>
       \/ /\ callFailed' = TRUE
          /\ inflight' = <<>>
          /\ isFirstWorkerRun' = FALSE
          /\ pc' = "afterWorker"
          /\ lastLog' = "session_output"
          /\ UNCHANGED <<doc, outcome>>
       \/ /\ Ends("OpenCodeError", "opencode_error")
          /\ callFailed' = TRUE
          /\ inflight' = <<>>
          /\ UNCHANGED <<doc, isFirstWorkerRun>>
    /\ UNCHANGED <<config, callVars, currentIndex, todoIndex, hasExistingFeedback,
                   workerSessionId,
                   reviewerSessionId, iteration, isFirstReviewRun, workerRuns, reviewRuns,
                   sentTo, result, nSessions, tally, sawBlocked, extEdits>>

\* processTodo: the parse of afterWorker, its two checks and the start of the reviewer
AfterWorker ==
    /\ pc = "afterWorker"
    /\ doc # NoFile
    /\ LET afterWorker == parsePlan
           step == afterWorkerStep(afterWorker, todoIndex)
       IN  /\ sawBlocked' = (sawBlocked \/ afterWorker.hasBlocked)
           /\ IF step = "review" THEN SendsReviewPrompt
              ELSE Returns("blocked", step)
    /\ UNCHANGED <<doc, config, callVars, callFailed, currentIndex, todoIndex,
                   hasExistingFeedback,
                   workerSessionId, reviewerSessionId, iteration, isFirstWorkerRun,
                   isFirstReviewRun, nSessions, tally, extEdits>>

\* sendPrompt to the reviewer session comes back, in one of the same three ways
ReviewerCompletes ==
    /\ pc = "reviewer"
    /\ \/ /\ doc' \in PlanDocs
          /\ inflight' = <<>>
          /\ isFirstReviewRun' = FALSE
          /\ pc' = "afterReview"
          /\ lastLog' \in SessionTexts
          /\ UNCHANGED <<outcome, callFailed>>
       \/ /\ callFailed' = TRUE
          /\ inflight' = <<>>
          /\ isFirstReviewRun' = FALSE
          /\ pc' = "afterReview"
          /\ lastLog' = "session_output"
          /\ UNCHANGED <<doc, outcome>>
       \/ /\ Ends("OpenCodeError", "opencode_error")
          /\ callFailed' = TRUE
          /\ inflight' = <<>>
          /\ UNCHANGED <<doc, isFirstReviewRun>>
    /\ UNCHANGED <<config, callVars, currentIndex, todoIndex, hasExistingFeedback,
                   workerSessionId,
                   reviewerSessionId, iteration, isFirstWorkerRun, workerRuns, reviewRuns,
                   sentTo, result, nSessions, tally, sawBlocked, extEdits>>

\* variant: the reviewer's answer decides, not the plan
AfterReview_ReadsAnswer ==
    /\ pc = "afterReview"
    /\ doc # NoFile
    /\ sawBlocked' = (sawBlocked \/ parsePlan.hasBlocked)
    /\ IF lastLog = "review: status=approved"
       THEN Returns("approved", "approved") /\ UNCHANGED iteration
       ELSE /\ iteration' = iteration + 1
            /\ pc' = "iteration"
            /\ lastLog' = "changes_requested"
            /\ UNCHANGED <<result, inflight, workerRuns, reviewRuns, sentTo, outcome>>
    /\ UNCHANGED <<doc, config, callVars, callFailed, currentIndex, todoIndex,
                   hasExistingFeedback,
                   workerSessionId, reviewerSessionId, isFirstWorkerRun,
                   isFirstReviewRun, nSessions, tally, extEdits>>

\* processTodo: the parse of afterReview, the approval, and iteration++
AfterReview ==
    /\ pc = "afterReview"
    /\ doc # NoFile
    /\ LET afterReview == parsePlan IN
        /\ sawBlocked' = (sawBlocked \/ afterReview.hasBlocked)
        /\ IF afterReviewStep(afterReview, todoIndex) = "approved"
           THEN Returns("approved", "approved") /\ UNCHANGED iteration
           ELSE /\ iteration' = iteration + 1
                /\ pc' = "iteration"
                /\ lastLog' = "changes_requested"
                /\ UNCHANGED <<result, inflight, workerRuns, reviewRuns, sentTo, outcome>>
    /\ UNCHANGED <<doc, config, callVars, callFailed, currentIndex, todoIndex,
                   hasExistingFeedback,
                   workerSessionId, reviewerSessionId, isFirstWorkerRun,
                   isFirstReviewRun, nSessions, tally, extEdits>>

\* The exit status of the process. process.exit(1) is in the catch of
\* runPromise, which a defect reaches; catchAll turns the three errors into a
\* message, after which the effect has succeeded and the process ends with 0,
\* as it does after a return of program.
exitCode == IF outcome = "defect" THEN 1 ELSE 0

\* program: what the driver loop does with the result of processTodo
Returned ==
    /\ pc = "returned"
    /\ LET next == afterProcessTodo(result) IN
        IF next # "continue"
        THEN /\ pc' = "final"
             /\ lastLog' = next
             /\ UNCHANGED <<currentIndex, sawBlocked>>
        ELSE /\ doc # NoFile
             /\ LET nextState == parsePlan IN
                 /\ sawBlocked' = (sawBlocked \/ nextState.hasBlocked)
                 /\ IF nextState.allDone
                    THEN pc' = "final" /\ UNCHANGED currentIndex
                    ELSE /\ currentIndex' = nextIndex(nextState, todoIndex)
                         /\ pc' = "loop"
                 /\ UNCHANGED lastLog
    /\ UNCHANGED <<doc, config, callVars, callFailed, todoVars, result, inflight,
                   nSessions, tally, outcome,
                   extEdits>>

\* program: the final status
FinalStatus ==
    /\ pc = "final"
    /\ doc # NoFile
    /\ LET finalState == parsePlan IN
        /\ tally' = <<statusCounts(finalState)>>
        /\ sawBlocked' = (sawBlocked \/ finalState.hasBlocked)
        /\ Ends("returned", IF finalState.allDone THEN "all_complete" ELSE "final_status")
    /\ UNCHANGED <<doc, config, callVars, callFailed, currentIndex, todoVars, result,
                   inflight, nSessions,
                   extEdits>>

\* someone other than the worker and the reviewer rewrites or removes the plan file
ExternalEdit ==
    /\ pc \notin {"start", "done"}
    /\ extEdits < MaxExternalEdits
    /\ doc' \in IF doc = NoFile THEN PlanDocs ELSE HandEdits[doc]
    /\ extEdits' = extEdits + 1
    /\ UNCHANGED <<config, callVars, callFailed, pc, currentIndex, todoVars, result,
                   inflight, nSessions,
                   lastLog, tally, outcome, sawBlocked>>

Next ==
    \/ Usage
    \/ PlanNotFound
    \/ InitialParse
    \/ LoopHead
    \/ CreateWorkerSession
    \/ CreateReviewerSession
    \/ Iteration
    \/ WorkerCompletes
    \/ AfterWorker
    \/ ReviewerCompletes
    \/ AfterReview
    \/ Returned
    \/ FinalStatus
    \/ ExternalEdit

Spec == Init /\ [][Next]_vars

(***************************************************************************)
(* The run with well-behaved sessions: a worker or a reviewer changes no   *)
(* more than the checkbox marker of the todo in hand, nobody else edits    *)
(* the plan, every call comes back and the program is not held up. The     *)
(* plan has no more pending todos than the sessions of the model allow.    *)
(***************************************************************************)
\* the plans that differ from d in the mark of its todo idx at most
markerEdits(d, idx) ==
    LET a == planLines[d]
        tasks == {i \in 1..Len(a) : \E m \in {" ", "x", "B"} : a[i] = TaskLine(m)}
    IN  {e \in PlanDocs :
            LET b == planLines[e] IN
            /\ Len(b) = Len(a)
            /\ \A i \in 1..Len(a) :
                  a[i] # b[i] =>
                      /\ i \in tasks
                      /\ Cardinality({j \in tasks : j < i}) = idx
                      /\ \E m \in {" ", "x", "B"} : b[i] = TaskLine(m)}

pendingLines(d) ==
    Cardinality({i \in 1..Len(planLines[d]) : planLines[d][i] = TaskLine(" ")})

TermInit ==
    /\ Init
    /\ doc # NoFile => 2 * pendingLines(doc) <= MaxSessions

TameWorkerCompletes ==
    /\ pc = "worker"
    /\ doc' \in markerEdits(doc, todoIndex)
    /\ WorkerCompletes

TameReviewerCompletes ==
    /\ pc = "reviewer"
    /\ doc' \in markerEdits(doc, todoIndex)
    /\ ReviewerCompletes

TermNext ==
    \/ Usage
    \/ PlanNotFound
    \/ InitialParse
    \/ LoopHead
    \/ CreateWorkerSession
    \/ CreateReviewerSession
    \/ Iteration
    \/ TameWorkerCompletes
    \/ AfterWorker
    \/ TameReviewerCompletes
    \/ AfterReview
    \/ Returned
    \/ FinalStatus

TermSpec == TermInit /\ [][TermNext]_vars /\ WF_vars(TermNext)

(***************************************************************************)
(* The run with --max-iterations-per-todo below 1. parseArgs takes the     *)
(* number as parseInt gives it; the body of the loop of processTodo never  *)
(* runs, so no prompt is sent and none comes back.                         *)
(***************************************************************************)
BelowOne == {-1, 0}

LimitInit ==
    /\ doc \in PlanDocs \cup {NoFile}
    /\ hasArgs \in BOOLEAN
    /\ maxIterationsPerTodo \in BelowOne
    /\ pc = "start"
    /\ currentIndex = None
    /\ todoIndex = 0
    /\ hasExistingFeedback = FALSE
    /\ workerSessionId = 0
    /\ reviewerSessionId = 0
    /\ iteration = 1
    /\ isFirstWorkerRun = TRUE
    /\ isFirstReviewRun = TRUE
    /\ result = "none"
    /\ inflight = <<>>
    /\ nSessions = 0
    /\ lastLog = "none"
    /\ tally = <<>>
    /\ outcome = "running"
    /\ sawBlocked = FALSE
    /\ workerRuns = 0
    /\ reviewRuns = 0
    /\ sentTo = [worker |-> {}, reviewer |-> {}]
    /\ extEdits = 0
    /\ callFailed = FALSE
    /\ argText = <<>>
    /\ planState = <<>>

LimitNext ==
    \/ Usage
    \/ PlanNotFound
    \/ InitialParse
    \/ LoopHead
    \/ CreateWorkerSession
    \/ CreateReviewerSession
    \/ Iteration
    \/ Returned
    \/ FinalStatus
    \/ ExternalEdit

LimitSpec == LimitInit /\ [][LimitNext]_vars

(***************************************************************************)
(* parsePlanContent taken by itself: one call, on a text of up to MaxLines *)
(* lines drawn from the lines a plan file can hold.                        *)
(***************************************************************************)
\* "## TODO 2": a second heading that begins like the heading of the section
TodoHeadingMore == TodoHeading \o <<" ", "2">>
\* "### N": a heading of level 3
SubHeading == <<"#", "#", "#", " ", "N">>
\* "  n": a line of notes under a todo
NoteLine == <<" ", " ", "n">>
\* "- [ ] ": a checkbox with no text after it
EmptyTaskLine == <<"-", " ", "[", " ", "]", " ">>

SampleLines ==
    {TodoHeading, TodoHeadingMore, ProgressHeading, SubHeading,
     TaskLine(" "), TaskLine("x"), TaskLine("X"), TaskLine("B"), TaskLine("b"),
     FeedbackLine, NoteLine, EmptyTaskLine}

\* the text whose lines are these
RECURSIVE join(_, _)
join(lines, i) ==
    IF i > Len(lines) THEN <<>>
    ELSE lines[i] \o (IF i < Len(lines) THEN NL ELSE <<>>) \o join(lines, i + 1)

\* the texts of n lines
Texts(n) == {join(l, 1) : l \in [1..n -> SampleLines]}

\* a call parsePlanContent(content) is about to be made; the program does not run
ParseInit ==
    /\ \E n \in 0..MaxLines : argText \in Texts(n)
    /\ planState = <<>>
    /\ pc = "parsePlanContent"
    /\ doc = NoFile
    /\ hasArgs = FALSE
    /\ maxIterationsPerTodo = 0
    /\ currentIndex = None
    /\ todoIndex = 0
    /\ hasExistingFeedback = FALSE
    /\ workerSessionId = 0
    /\ reviewerSessionId = 0
    /\ iteration = 1
    /\ isFirstWorkerRun = TRUE
    /\ isFirstReviewRun = TRUE
    /\ result = "none"
    /\ inflight = <<>>
    /\ nSessions = 0
    /\ lastLog = "none"
    /\ tally = <<>>
    /\ outcome = "running"
    /\ sawBlocked = FALSE
    /\ workerRuns = 0
    /\ reviewRuns = 0
    /\ sentTo = [worker |-> {}, reviewer |-> {}]
    /\ extEdits = 0
    /\ callFailed = FALSE

\* the call returns its PlanState
ParsesContent ==
    /\ pc = "parsePlanContent"
    /\ planState' = <<parsePlanContent(argText)>>
    /\ pc' = "parsed"
    /\ UNCHANGED <<doc, config, argText, callFailed, currentIndex, todoVars, result,
                   inflight, nSessions, lastLog, tally, outcome, sawBlocked, extEdits>>

ParseNext == ParsesContent

ParseSpec == ParseInit /\ [][ParseNext]_vars

(***************************************************************************)
(* parsePlanContent on texts with the feedback marker in every place a     *)
(* line can have it: in a line under a todo and in the text of a checklist *)
(* line.                                                                   *)
(***************************************************************************)
\* "- [m] review: status=request_changes": a todo whose text is the marker
MarkedTaskLine(mark) == <<"-", " ", "[", mark, "]", " ">> \o FeedbackMarker

MarkerLines ==
    {TodoHeading, ProgressHeading, TaskLine(" "), TaskLine("x"),
     MarkedTaskLine(" "), MarkedTaskLine("x"), FeedbackLine, NoteLine}

MarkerTexts(n) == {join(l, 1) : l \in [1..n -> MarkerLines]}

MarkerInit ==
    /\ \E n \in 0..MaxLines : argText \in MarkerTexts(n)
    /\ planState = <<>>
    /\ pc = "parsePlanContent"
    /\ doc = NoFile
    /\ hasArgs = FALSE
    /\ maxIterationsPerTodo = 0
    /\ currentIndex = None
    /\ todoIndex = 0
    /\ hasExistingFeedback = FALSE
    /\ workerSessionId = 0
    /\ reviewerSessionId = 0
    /\ iteration = 1
    /\ isFirstWorkerRun = TRUE
    /\ isFirstReviewRun = TRUE
    /\ result = "none"
    /\ inflight = <<>>
    /\ nSessions = 0
    /\ lastLog = "none"
    /\ tally = <<>>
    /\ outcome = "running"
    /\ sawBlocked = FALSE
    /\ workerRuns = 0
    /\ reviewRuns = 0
    /\ sentTo = [worker |-> {}, reviewer |-> {}]
    /\ extEdits = 0
    /\ callFailed = FALSE

MarkerNext == ParsesContent

MarkerSpec == MarkerInit /\ [][MarkerNext]_vars

(***************************************************************************)
(* Properties.                                                             *)
(***************************************************************************)
\* the first todo (0-based) that is neither done nor blocked, by its definition
FirstEligible(todos) ==
    LET eligible == {i \in 0..(Len(todos) - 1) :
                        ~todos[i + 1].done /\ ~todos[i + 1].blocked}
    IN  IF eligible = {} THEN None
        ELSE Some(CHOOSE i \in eligible : \A j \in eligible : i <= j)

\* the done / pending / blocked counts of a todo list, by their definition
Counts(todos) ==
    LET ix == 1..Len(todos) IN
    [total |-> Len(todos),
     done |-> Cardinality({k \in ix : todos[k].done}),
     pending |-> Cardinality({k \in ix : ~todos[k].done /\ ~todos[k].blocked}),
     blocked |-> Cardinality({k \in ix : todos[k].blocked})]

\* a step of the program itself at this place (not an edit of the plan by hand,
\* and not a failed read of the plan)
ProgramStepAt(place) == pc = place /\ pc' # place /\ doc # NoFile

\* this step returns res from processTodo without sending a prompt
ReturnsWithoutPrompt(res) ==
    /\ pc' = "returned"
    /\ result' = res
    /\ inflight' = <<>>
    /\ workerRuns' = workerRuns
    /\ reviewRuns' = reviewRuns

\* C1: once a parse of the run has shown hasBlocked, no session is created any
\* more (stated for the runs in which only worker and reviewer edit the plan).
C1_NoSessionAfterBlocked ==
    [][(sawBlocked /\ extEdits' = 0) => nSessions' = nSessions]_vars

\* C2 as stated: the first worker prompt of a todo is the fresh one, every later
\* one is the resume prompt, and all go to one worker session (stated for the
\* runs in which only worker and reviewer edit the plan).
C2_FirstWorkerPromptFresh ==
    (pc = "worker" /\ extEdits = 0) =>
        /\ inflight[1].prompt =
               IF workerRuns = 1 THEN PROMPTS.worker ELSE PROMPTS.resume
        /\ inflight[1].session = workerSessionId
        /\ sentTo.worker = {workerSessionId}

\* C2 amended: the first worker prompt of a todo is the fresh one unless the todo
\* carried review feedback in the snapshot the driver read before processTodo,
\* and then it is the resume prompt; every later one is the resume prompt; all
\* go to the one worker session of the todo.
C2_WorkerPromptVariant ==
    pc = "worker" =>
        /\ inflight[1].prompt =
               IF workerRuns = 1 /\ ~hasExistingFeedback
               THEN PROMPTS.worker ELSE PROMPTS.resume
        /\ inflight[1].role = "worker"
        /\ inflight[1].session = workerSessionId
        /\ sentTo.worker = {workerSessionId}

C2_Witness ==
    /\ pc = "worker"
    /\ workerRuns = 2
    /\ ~hasExistingFeedback
    /\ inflight[1].prompt = PROMPTS.resume

\* C3: the first reviewer prompt of a todo is the review prompt, every later one
\* the resume-review prompt, and all go to the one reviewer session of the todo.
C3_ReviewPromptVariant ==
    pc = "reviewer" =>
        /\ inflight[1].prompt =
               IF reviewRuns = 1 THEN PROMPTS.review ELSE PROMPTS.resumeReview
        /\ inflight[1].role = "reviewer"
        /\ inflight[1].session = reviewerSessionId
        /\ sentTo.reviewer = {reviewerSessionId}
        /\ reviewerSessionId # workerSessionId

C3_Witness ==
    /\ pc = "reviewer"
    /\ reviewRuns = 2
    /\ inflight[1].prompt = PROMPTS.resumeReview

\* C4: an iteration that starts on a plan with a blocked todo returns "blocked"
\* and sends no prompt.
C4_BlockedAtIterationStart ==
    [][(/\ ProgramStepAt("iteration")
        /\ withinIterations(iteration, maxIterationsPerTodo)
        /\ parsePlanContent(doc).hasBlocked)
       => ReturnsWithoutPrompt("blocked")]_vars

C4_Witness ==
    /\ pc = "returned"
    /\ result = "blocked"
    /\ lastLog = "iteration"
    /\ iteration = 2
    /\ doc # NoFile
    /\ parsePlanContent(doc).hasBlocked

\* C5: when the parse after a worker run shows the todo not done, or some todo
\* blocked, processTodo returns "blocked" and the reviewer gets no prompt.
C5_BlockedAfterWorker ==
    [][(/\ ProgramStepAt("afterWorker")
        /\ \/ parsePlanContent(doc).hasBlocked
           \/ ~todoDone(parsePlanContent(doc), todoIndex))
       => ReturnsWithoutPrompt("blocked")]_vars

C5_Witness ==
    /\ pc = "returned"
    /\ result = "blocked"
    /\ lastLog = "worker_incomplete"
    /\ workerRuns = 1
    /\ reviewRuns = 0

\* C6 as stated: after the parse that follows a reviewer run, a done todo is
\* approved; otherwise the iteration counter goes up by one and the next thing
\* the program does for the todo is the worker step, on the same sessions (stated
\* for the runs in which only worker and reviewer edit the plan).
C6_ChangesRequestedRunsWorker ==
    [][extEdits' = 0 =>
       /\ ProgramStepAt("afterReview") =>
               IF todoDone(parsePlanContent(doc), todoIndex)
               THEN ReturnsWithoutPrompt("approved")
               ELSE /\ iteration' = iteration + 1
                    /\ pc' = "iteration"
                    /\ workerSessionId' = workerSessionId
                    /\ reviewerSessionId' = reviewerSessionId
       /\ (ProgramStepAt("iteration") /\ iteration > 1) =>
               \/ /\ pc' = "worker"
                  /\ inflight'[1].session = workerSessionId
               \/ outcome' = "PromptNotFoundError"]_vars

\* C6 amended: after the parse that follows a reviewer run, a done todo is
\* approved; otherwise the iteration counter goes up by one, no prompt is sent in
\* that step and the sessions stay. The loop then goes on at its head: beyond
\* maxIterationsPerTodo it returns "max_iterations"; else it parses again, returns
\* "blocked" on a blocked todo, runs the worker on the same worker session when the
\* todo is not done, and the reviewer on the same reviewer session when it is.
C6_AfterReview ==
    [][/\ ProgramStepAt("afterReview") =>
            IF todoDone(parsePlanContent(doc), todoIndex)
            THEN ReturnsWithoutPrompt("approved")
            ELSE /\ iteration' = iteration + 1
                 /\ pc' = "iteration"
                 /\ inflight' = <<>>
                 /\ workerSessionId' = workerSessionId
                 /\ reviewerSessionId' = reviewerSessionId
       /\ (ProgramStepAt("iteration") /\ iteration > 1) =>
            IF iteration > maxIterationsPerTodo
            THEN ReturnsWithoutPrompt("max_iterations")
            ELSE IF parsePlanContent(doc).hasBlocked
            THEN ReturnsWithoutPrompt("blocked")
            ELSE \/ outcome' = "PromptNotFoundError"
                 \/ IF ~todoDone(parsePlanContent(doc), todoIndex)
                    THEN /\ pc' = "worker"
                         /\ inflight'[1].session = workerSessionId
                    ELSE /\ pc' = "reviewer"
                         /\ inflight'[1].session = reviewerSessionId]_vars

C6_Witness ==
    /\ pc = "worker"
    /\ iteration = 2
    /\ workerRuns = 2
    /\ reviewRuns = 1
    /\ lastLog = "worker_role"

\* C7: with maxIterationsPerTodo = N >= 1, a todo ends with "max_iterations"
\* after N reviewer prompts and, when only worker and reviewer edit the plan,
\* N worker prompts; the run then does nothing but its final status.
C7_MaxIterations ==
    (result = "max_iterations" /\ maxIterationsPerTodo >= 1) =>
        /\ reviewRuns = maxIterationsPerTodo
        /\ extEdits = 0 => workerRuns = maxIterationsPerTodo
        /\ iteration = maxIterationsPerTodo + 1
        /\ pc \in {"returned", "final", "done"}
        /\ inflight = <<>>

C7_Witness ==
    /\ pc = "done"
    /\ outcome = "returned"
    /\ result = "max_iterations"
    /\ maxIterationsPerTodo = 2
    /\ workerRuns = 2
    /\ reviewRuns = 2
    /\ isSome(FirstEligible(parsePlanContent(doc).todos))

\* C8: once processTodo has returned "blocked" or "max_iterations", no session is
\* created and no prompt is sent any more.
C8_StopsAfterBlockedOrMax ==
    [][(result \in {"blocked", "max_iterations"}) =>
          /\ nSessions' = nSessions
          /\ inflight' = <<>>
          /\ workerRuns' = workerRuns
          /\ reviewRuns' = reviewRuns
          /\ result' = result]_vars

C8_Witness ==
    /\ pc = "done"
    /\ outcome = "returned"
    /\ result = "blocked"
    /\ isSome(FirstEligible(parsePlanContent(doc).todos))
    /\ ~parsePlanContent(doc).hasBlocked

\* C9: the index the driver goes on with after an approval is the first todo that
\* is neither done nor blocked in the plan as it is parsed after the approval.
C9_NextIndexFromFreshParse ==
    [][(ProgramStepAt("returned") /\ result = "approved" /\ pc' = "loop") =>
          currentIndex' = FirstEligible(parsePlanContent(doc).todos)]_vars

C9_Witness ==
    /\ pc = "loop"
    /\ result = "approved"
    /\ isSome(currentIndex)
    /\ currentIndex[1] <= todoIndex
    /\ extEdits = 0

\* C10: a run that ends by a return of program after its parses succeeded has
\* reported the done / pending / blocked counts of the plan as it is at the end.
C10_FinalTally ==
    (pc = "done" /\ outcome = "returned") =>
        /\ doc # NoFile
        /\ tally = <<Counts(parsePlanContent(doc).todos)>>

C10_Witness ==
    /\ pc = "done"
    /\ outcome = "returned"
    /\ result = "max_iterations"
    /\ reviewRuns >= 1
    /\ tally # <<>>
    /\ tally[1].pending > 0

(***************************************************************************)
(* Properties of parsePlanContent, by the lines of the text.               *)
(***************************************************************************)
DoneMarks == {"x", "X"}
BlockedMarks == {"B", "b"}
PendingMarks == {" "}
AnyMark == DoneMarks \cup BlockedMarks \cup PendingMarks

\* the line is "- [m] " with m one of the marks, and text after it
isChecklistLine(line, marks) ==
    /\ Len(line) >= 7
    /\ line[1] = "-" /\ line[2] = " " /\ line[3] = "["
    /\ line[4] \in marks
    /\ line[5] = "]" /\ line[6] = " "
    /\ line[7] \notin LineTerminators

\* the least element of a set of numbers that has one
Least(S) == CHOOSE i \in S : \A j \in S : i <= j

\* the k-th element of a set of numbers, in rising order
Kth(S, k) == CHOOSE i \in S : Cardinality({j \in S : j < i}) = k - 1

\* The lines (by number) of the task section that ends at the first of the
\* closing lines after the section's opening heading. Lines that begin like the
\* opening heading are headings, never lines of the section.
SectionUpTo(lines, closing) ==
    LET opening == {i \in 1..Len(lines) : startsWith(lines[i], TodoHeading)}
        after == {c \in closing : opening # {} /\ c > Least(opening)}
        end == IF after = {} THEN Len(lines) + 1 ELSE Least(after)
    IN  IF opening = {} THEN {}
        ELSE {i \in (Least(opening) + 1)..(end - 1) : i \notin opening}

\* the section that any later level-2 heading closes
ClaimedSection(lines) ==
    SectionUpTo(lines, {c \in 1..Len(lines) : startsWith(lines[c], HeadingPrefix)})

\* the section that a later level-2 heading closes unless it begins "## TODO"
ParsedSection(lines) ==
    SectionUpTo(lines, {c \in 1..Len(lines) :
                          /\ startsWith(lines[c], HeadingPrefix)
                          /\ ~startsWith(lines[c], TodoHeading)})

\* the checklist lines among these lines
TasksIn(lines, section) == {i \in section : isChecklistLine(lines[i], AnyMark)}

\* the returned PlanState, the lines of the text, its checklist lines
returned == planState[1]
textLines == split(argText)
textTasks == TasksIn(textLines, ParsedSection(textLines))

\* C11: allDone is true exactly when the task list is not empty and every task
\* of it is done; the tasks are the checklist lines of the section, so that a
\* section without checklist lines gives an empty list and allDone = FALSE.
C11_AllDone ==
    planState # <<>> =>
        LET lines == textLines
            tasks == TasksIn(lines, ParsedSection(lines))
        IN
            LET todos == returned.todos IN
            /\ returned.allDone = (Len(todos) > 0 /\ \A k \in 1..Len(todos) : todos[k].done)
            /\ returned.allDone =
                   /\ tasks # {}
                   /\ \A i \in tasks : isChecklistLine(lines[i], DoneMarks)
            /\ tasks = {} => (todos = <<>> /\ ~returned.allDone)

C11_Witness ==
    /\ planState # <<>>
    /\ returned.allDone
    /\ Cardinality(textTasks) = 2
    /\ \E i \in 1..Len(textLines) : textLines[i] = ProgressHeading

\* C12: nextTodoIndex is the least index of the task list whose task is neither
\* done nor blocked, and it is absent exactly when the list has no such task; it
\* is the place, among the checklist lines of the section, of the first pending one.
C12_NextTodoIndex ==
    planState # <<>> =>
        LET lines == textLines
            tasks == TasksIn(lines, ParsedSection(lines))
        IN
            LET todos == returned.todos
                eligible == {i \in 0..(Len(todos) - 1) :
                                ~todos[i + 1].done /\ ~todos[i + 1].blocked}
                pending == {k \in 1..Cardinality(tasks) :
                               isChecklistLine(lines[Kth(tasks, k)], PendingMarks)}
            IN  /\ isSome(returned.nextTodoIndex) = (eligible # {})
                /\ eligible # {} => returned.nextTodoIndex = Some(Least(eligible))
                /\ isSome(returned.nextTodoIndex) = (pending # {})
                /\ pending # {} => returned.nextTodoIndex = Some(Least(pending) - 1)

C12_Witness ==
    /\ planState # <<>>
    /\ returned.nextTodoIndex = Some(2)
    /\ returned.todos[1].done
    /\ returned.todos[2].blocked

\* C13: hasBlocked is true exactly when some task of the list is blocked, and the
\* k-th task is blocked exactly when the k-th checklist line of the section is
\* "- [B] text" or "- [b] text".
C13_HasBlocked ==
    planState # <<>> =>
        LET lines == textLines
            tasks == TasksIn(lines, ParsedSection(lines))
        IN
            LET todos == returned.todos IN
            /\ returned.hasBlocked = \E k \in 1..Len(todos) : todos[k].blocked
            /\ Len(todos) >= Cardinality(tasks)
            /\ \A k \in 1..Cardinality(tasks) :
                   todos[k].blocked = isChecklistLine(lines[Kth(tasks, k)], BlockedMarks)
            /\ returned.hasBlocked =
                   \E i \in tasks : isChecklistLine(lines[i], BlockedMarks)

C13_Witness ==
    /\ planState # <<>>
    /\ returned.hasBlocked
    /\ \E i \in textTasks : textLines[i] = TaskLine("b")
    /\ \A i \in textTasks : textLines[i] # TaskLine("B")

\* the line contains "review: status=request_changes"
hasMarker(line) ==
    \E at \in 0..(Len(line) - Len(FeedbackMarker)) :
        \A j \in 1..Len(FeedbackMarker) : line[at + j] = FeedbackMarker[j]

\* C14: the k-th task has hasReviewFeedback exactly when a line of the section
\* that contains "review: status=request_changes" comes after the k-th checklist
\* line and before the next checklist line, whatever the mark of the task.
C14_ReviewFeedback ==
    planState # <<>> =>
        LET lines == textLines
            tasks == TasksIn(lines, ParsedSection(lines))
        IN
            /\ Len(returned.todos) >= Cardinality(tasks)
            /\ \A k \in 1..Cardinality(tasks) :
                   LET i == Kth(tasks, k)
                       annotations ==
                           {j \in ParsedSection(lines) :
                               /\ j > i
                               /\ \A t \in tasks : ~(i < t /\ t <= j)}
                   IN  returned.todos[k].hasReviewFeedback =
                           \E j \in annotations : hasMarker(lines[j])

C14_Witness ==
    /\ planState # <<>>
    /\ Len(returned.todos) >= 2
    /\ returned.todos[1].blocked
    /\ returned.todos[1].hasReviewFeedback
    /\ ~returned.todos[2].hasReviewFeedback

\* C15: the task section ends at the first level-2 heading after its opening
\* heading, whatever that heading says: every task of the list is a checklist
\* line that lies before that heading.
C15_SectionEndsAtNextHeading ==
    planState # <<>> =>
        LET lines == textLines
            tasks == TasksIn(lines, ParsedSection(lines))
        IN
            LET claimed == TasksIn(lines, ClaimedSection(lines)) IN
            \A k \in 1..Len(returned.todos) :
                \E i \in claimed :
                    /\ returned.todos[k].done = isChecklistLine(lines[i], DoneMarks)
                    /\ returned.todos[k].blocked = isChecklistLine(lines[i], BlockedMarks)

(***************************************************************************)
(* Properties of the run: sessions, failures and the end of the process.   *)
(***************************************************************************)
\* the places of processTodo after its two sessions are created
Processing ==
    {"iteration", "worker", "afterWorker", "reviewer", "afterReview", "returned"}

\* C16: one prompt runs at a time. While a prompt runs no other is sent; a
\* prompt is sent only by a step that has just parsed the plan as its last
\* invocation left it, and it is the prompt that parse calls for: none on a
\* blocked todo, the reviewer's when the todo is done, the worker's when not.
C16_OneInvocationAtATime ==
    [][/\ Len(inflight') <= 1
       /\ inflight # <<>> => (inflight' = inflight \/ inflight' = <<>>)
       /\ (inflight # <<>>) = (pc \in {"worker", "reviewer"})
       /\ (inflight = <<>> /\ inflight' # <<>>) =>
             /\ pc \in {"iteration", "afterWorker"}
             /\ doc # NoFile
             /\ doc' = doc
             /\ ~parsedPlans[doc].hasBlocked
             /\ (inflight'[1].role = "reviewer") = todoDone(parsedPlans[doc], todoIndex)
             /\ (inflight'[1].role = "worker") = ~todoDone(parsedPlans[doc], todoIndex)]_vars

C16_Witness ==
    /\ pc = "reviewer"
    /\ workerRuns = 2
    /\ reviewRuns = 2
    /\ inflight[1].role = "reviewer"
    /\ extEdits = 0

\* C17: each todo that is processed has two sessions of its own, created for it
\* one after the other and distinct; its worker prompts go to the first and its
\* reviewer prompts to the second, and to no session of another todo; no other
\* session is created.
C17_TwoSessionsPerTodo ==
    /\ pc \in Processing =>
          /\ nSessions % 2 = 0
          /\ workerSessionId = nSessions - 1
          /\ reviewerSessionId = nSessions
          /\ workerSessionId # reviewerSessionId
          /\ sentTo.worker \subseteq {workerSessionId}
          /\ sentTo.reviewer \subseteq {reviewerSessionId}
    /\ pc = "createReviewer" =>
          /\ nSessions % 2 = 1
          /\ workerSessionId = nSessions
    /\ pc \in {"loop", "createWorker"} =>
          /\ nSessions % 2 = 0
          /\ reviewerSessionId = nSessions
    /\ inflight # <<>> =>
          inflight[1].session =
              IF inflight[1].role = "worker" THEN workerSessionId ELSE reviewerSessionId

C17_Witness ==
    /\ pc = "reviewer"
    /\ nSessions = 4
    /\ sentTo = [worker |-> {3}, reviewer |-> {4}]
    /\ inflight[1].session = 4

\* C18: once a createSession or a prompt call has failed, no session is created
\* and no prompt is sent any more, and the run has ended with the error.
C18_FailureIsFatal ==
    [][callFailed =>
          /\ nSessions' = nSessions
          /\ inflight' = <<>>
          /\ workerRuns' = workerRuns
          /\ reviewRuns' = reviewRuns
          /\ outcome \in {"OpenCodeError", "running"}
          /\ outcome' = "OpenCodeError"]_vars

\* C19: a run that ends with one of the three errors has printed its diagnostic
\* and ends with an exit status other than 0.
C19_ErrorExitsNonzero ==
    (pc = "done" /\ outcome \in {"PlanNotFoundError", "PromptNotFoundError", "OpenCodeError"})
        => /\ lastLog \in {"plan_not_found", "prompt_not_found", "opencode_error"}
           /\ exitCode # 0

\* C20: a run without a positional argument prints the usage text, parses
\* nothing, creates no session, sends no prompt, and ends with an exit status
\* other than 0.
C20_UsageExitsNonzero ==
    (pc = "done" /\ outcome = "usage")
        => /\ lastLog = "usage"
           /\ nSessions = 0
           /\ tally = <<>>
           /\ ~sawBlocked
           /\ workerRuns = 0 /\ reviewRuns = 0
           /\ exitCode # 0

(***************************************************************************)
(* The reviewer's turn, the driver's rounds and the bounds of a run.       *)
(***************************************************************************)
\* the parse of the plan as it is now shows a blocked todo and the todo in hand
\* not done
BlockedNotDone ==
    /\ doc # NoFile
    /\ parsedPlans[doc].hasBlocked
    /\ ~todoDone(parsedPlans[doc], todoIndex)

\* C21 as stated: when the parse after a reviewer run shows a blocked todo and
\* the todo in hand not done, processTodo returns "blocked", at every iteration
\* up to the last one. The program is at the head of the loop with iteration > 1
\* exactly after such a parse, and the plan is the one that parse read when
\* nobody else edits it.
C21_BlockedAfterReviewAlways ==
    [][(/\ pc = "iteration"
        /\ iteration > 1
        /\ BlockedNotDone
        /\ extEdits' = 0
        /\ pc' = "returned")
       => result' = "blocked"]_vars

\* C21 amended: the parse after a reviewer run looks at the todo in hand only; on
\* a blocked todo with the todo in hand not done it sends nothing, leaves the plan
\* and counts the iteration. The head of the loop then returns "blocked" from its
\* own parse when the reviewer ran in an iteration before the last one, and
\* "max_iterations", without a parse, when it ran in the last one.
C21_BlockedAfterReview ==
    [][/\ (ProgramStepAt("afterReview") /\ BlockedNotDone) =>
            /\ pc' = "iteration"
            /\ iteration' = iteration + 1
            /\ result' = result
            /\ inflight' = <<>>
            /\ doc' = doc
       /\ (ProgramStepAt("iteration") /\ iteration > 1 /\ BlockedNotDone) =>
            IF iteration <= maxIterationsPerTodo
            THEN ReturnsWithoutPrompt("blocked")
            ELSE ReturnsWithoutPrompt("max_iterations")]_vars

C21_Witness ==
    /\ pc = "returned"
    /\ result = "blocked"
    /\ lastLog = "iteration"
    /\ iteration = 2
    /\ maxIterationsPerTodo = 2
    /\ reviewRuns = 1
    /\ extEdits = 0
    /\ BlockedNotDone

\* what the step after a session's answer does, from the snapshot it parses and
\* the variables of processTodo: where the program goes, what processTodo
\* returns (result as it was while it goes on), the iteration and the prompt sent
afterAnswer(place, snapshot) ==
    IF place = "afterWorker"
    THEN IF afterWorkerStep(snapshot, todoIndex) = "review"
         THEN [pc |-> "reviewer", result |-> result, iteration |-> iteration,
               inflight |-> <<[session |-> reviewerSessionId,
                               prompt |-> reviewPromptPath(isFirstReviewRun),
                               role |-> "reviewer"]>>]
         ELSE [pc |-> "returned", result |-> "blocked", iteration |-> iteration,
               inflight |-> <<>>]
    ELSE IF afterReviewStep(snapshot, todoIndex) = "approved"
         THEN [pc |-> "returned", result |-> "approved", iteration |-> iteration,
               inflight |-> <<>>]
         ELSE [pc |-> "iteration", result |-> result, iteration |-> iteration + 1,
               inflight |-> <<>>]

\* C22: the text of a session's answer is not state. The step that follows an
\* answer (the only one taken while the text is the last thing on the console)
\* is the same for every text: it is fixed by the snapshot parsed in that step,
\* the todo index, the iteration and the sessions of the todo, unless a prompt
\* file cannot be read; it creates no session and leaves the driver's index.
C22_AnswerTextIsNotState ==
    [][\A place \in {"afterWorker", "afterReview"} :
          (ProgramStepAt(place) /\ outcome' # "PromptNotFoundError") =>
              /\ lastLog \in SessionTexts \cup {"session_output"}
              /\ [pc |-> pc', result |-> result', iteration |-> iteration',
                  inflight |-> inflight'] = afterAnswer(place, parsedPlans[doc])
              /\ nSessions' = nSessions
              /\ currentIndex' = currentIndex
              /\ outcome' = outcome]_vars

\* the reviewer's answer says "request_changes" and the plan it left has the todo
\* checked
C22_Witness ==
    /\ pc = "afterReview"
    /\ lastLog = "review: status=request_changes"
    /\ doc # NoFile
    /\ todoDone(parsedPlans[doc], todoIndex)
    /\ reviewRuns = 1
    /\ extEdits = 0

\* the places of the loop of processTodo
InLoop == {"iteration", "worker", "afterWorker", "reviewer", "afterReview"}

\* C23: with sessions that come back, processTodo leaves its loop: it returns
\* one of its three results, or the run ends on an error, and no worker or
\* reviewer runs in an iteration beyond maxIterationsPerTodo. With sessions that
\* change only the mark of the todo in hand, and no other edit of the plan, the
\* whole run ends.
C23_Terminates ==
    /\ [](pc \in InLoop \ {"iteration"} => iteration <= maxIterationsPerTodo)
    /\ [](pc \in InLoop => iteration <= maxIterationsPerTodo + 1)
    /\ [](pc = "returned" => result \in {"approved", "blocked", "max_iterations"})
    /\ (pc \in InLoop) ~> (pc \in {"returned", "done"})
    /\ <>(pc = "done")

\* a run of two todos, each approved after a review that asked for changes, has
\* ended
C23_Witness ==
    /\ pc = "done"
    /\ outcome = "returned"
    /\ lastLog = "all_complete"
    /\ nSessions = 4
    /\ iteration = 2
    /\ result = "approved"

\* C24: in every round the index handed to processTodo is the nextTodoIndex of
\* the parse of that round: a todo of that snapshot that is neither done nor
\* blocked, also when the plan was edited after the parse of the round before.
C24_IndexOfThisRoundsParse ==
    [][(ProgramStepAt("loop") /\ isSome(currentIndex)) =>
          LET state == parsedPlans[doc] IN
          /\ pc' = "createWorker"
          /\ state.nextTodoIndex = Some(todoIndex')
          /\ todoIndex' + 1 <= Len(state.todos)
          /\ ~state.todos[todoIndex' + 1].done
          /\ ~state.todos[todoIndex' + 1].blocked]_vars

todosUpTo(lines) ==
    [i \in 0..Len(lines) |-> parsePlanContent(join(SubSeq(lines, 1, i), 1)).todos]

\* C26: what one more line does to the list. Every todo but the last stays as it
\* is. The last one (the most recently opened) keeps its text and mark; its flag
\* stays when set, and turns to TRUE exactly on a line of the section that is no
\* checklist line and contains the marker. Without a todo so far (before the first
\* checklist line, or before the section) no line gives a flag, and a line
\* after the section changes nothing.
C26_MarkerSetsOpenTaskOnly ==
    planState # <<>> =>
        LET lines == textLines
            section == ParsedSection(lines)
            upTo == todosUpTo(lines)
        IN  \A i \in 1..Len(lines) :
                LET before == upTo[i - 1]
                    after == upTo[i]
                    n == Len(before)
                    marks == /\ i \in section
                             /\ ~isChecklistLine(lines[i], AnyMark)
                             /\ hasMarker(lines[i])
                IN  /\ Len(after) >= n
                    /\ \A k \in 1..(n - 1) : after[k] = before[k]
                    /\ n > 0 =>
                          after[n] = [before[n] EXCEPT
                                         !.hasReviewFeedback = @ \/ marks]
                    /\ n = 0 => \A k \in 1..Len(after) : ~after[k].hasReviewFeedback
                    /\ (i \notin section /\ ~startsWith(lines[i], HeadingPrefix))
                           => after = before

\* two todos and a marker line under the second: the first todo is as it was
\* before that line, the second one has the flag
C26_Witness ==
    /\ planState # <<>>
    /\ Len(textLines) = 4
    /\ isChecklistLine(textLines[2], AnyMark)
    /\ isChecklistLine(textLines[3], AnyMark)
    /\ hasMarker(textLines[4])
    /\ Len(returned.todos) = 2
    /\ ~returned.todos[1].hasReviewFeedback
    /\ returned.todos[2].hasReviewFeedback

\* the checklist lines of the section with the marker in their text
markedTasks(lines) ==
    {i \in TasksIn(lines, ParsedSection(lines)) : hasMarker(lines[i])}

\* C27 as stated: a checklist line with the marker in its text gives a todo with
\* hasReviewFeedback.
C27_MarkerInTaskTextSetsFlag ==
    planState # <<>> =>
        LET lines == textLines
            tasks == TasksIn(lines, ParsedSection(lines))
        IN  \A i \in markedTasks(lines) :
                LET k == Cardinality({t \in tasks : t <= i})
                IN  /\ k <= Len(returned.todos)
                    /\ returned.todos[k].hasReviewFeedback

\* C27 amended: a checklist line of the section with the marker in its text is
\* read as a checklist line only: it opens a todo with that text, the mark of
\* the line and hasReviewFeedback = FALSE, and the todos before it stay as they
\* are. In the returned list that todo has the flag exactly when a line under it
\* that is no checklist line contains the marker.
C27_MarkerInTaskTextOpensTask ==
    planState # <<>> =>
        LET lines == textLines
            tasks == TasksIn(lines, ParsedSection(lines))
            upTo == todosUpTo(lines)
        IN  \A i \in markedTasks(lines) :
                LET k == Cardinality({t \in tasks : t <= i})
                    under == {j \in ParsedSection(lines) :
                                 /\ j > i
                                 /\ \A t \in tasks : ~(i < t /\ t <= j)}
                IN  /\ upTo[i] = Append(upTo[i - 1],
                           [text |-> SubSeq(lines[i], 7, Len(lines[i])),
                            done |-> lines[i][4] \in DoneMarks,
                            blocked |-> lines[i][4] \in BlockedMarks,
                            hasReviewFeedback |-> FALSE])
                    /\ k <= Len(returned.todos)
                    /\ hasMarker(returned.todos[k].text)
                    /\ returned.todos[k].hasReviewFeedback
                           = \E j \in under : hasMarker(lines[j])

\* a todo after another one has the marker in its text: neither has the flag
C27_Witness ==
    /\ planState # <<>>
    /\ markedTasks(textLines) # {}
    /\ Len(returned.todos) = 2
    /\ ~hasMarker(returned.todos[1].text)
    /\ hasMarker(returned.todos[2].text)
    /\ ~returned.todos[1].hasReviewFeedback
    /\ ~returned.todos[2].hasReviewFeedback

\* the places where the program parses the plan in its next step
ParsesNext ==
    \/ pc = "start" /\ hasArgs
    \/ pc = "loop" /\ isSome(currentIndex)
    \/ pc = "iteration" /\ iteration <= maxIterationsPerTodo
    \/ pc \in {"afterWorker", "afterReview", "final"}
    \/ pc = "returned" /\ result = "approved"

\* C28: the program never writes the plan. The text changes only in a step in
\* which a worker's or a reviewer's prompt comes back or somebody else edits the
\* file; every other step leaves it, so that a parse of the program reads the
\* text as the last of these left it, and sees a blocked todo whenever that text
\* has one.
C28_ControllerNeverWrites ==
    [][LET answered == pc \in {"worker", "reviewer"} /\ inflight # <<>> /\ inflight' = <<>>
           edited == extEdits' = extEdits + 1
       IN  /\ doc' # doc => (answered \/ edited)
           /\ (pc' # pc /\ ~answered) => doc' = doc
           /\ (pc' # pc /\ ParsesNext /\ doc # NoFile /\ parsedPlans[doc].hasBlocked)
                  => sawBlocked']_vars

\* the parse after the worker saw a blocked todo; the plan was left as it was,
\* and the parse of the final status has counted that todo
C28_Witness ==
    /\ pc = "done"
    /\ result = "blocked"
    /\ workerRuns = 1
    /\ sawBlocked
    /\ extEdits = 0
    /\ tally # <<>>
    /\ tally[1].blocked >= 1

\* this step sends a prompt to the reviewer
StartsReview ==
    /\ inflight = <<>>
    /\ inflight' # <<>>
    /\ inflight'[1].role = "reviewer"

\* C29: a prompt goes to the reviewer only in a step that has parsed the plan
\* and found the todo in hand in the list, done, and no todo blocked: at the head
\* of an iteration or after the worker. A step whose parse has the index out of
\* the list, the todo not done or a blocked todo sends the reviewer nothing.
C29_ReviewOnlyWhenDone ==
    [][/\ StartsReview =>
            /\ pc \in {"iteration", "afterWorker"}
            /\ ParsesNext
            /\ doc # NoFile
            /\ doc' = doc
            /\ LET state == parsedPlans[doc] IN
                /\ todoIndex + 1 <= Len(state.todos)
                /\ state.todos[todoIndex + 1].done
                /\ \A k \in 1..Len(state.todos) : ~state.todos[k].blocked
            /\ inflight'[1].session = reviewerSessionId
            /\ reviewRuns' = reviewRuns + 1
       /\ (/\ pc' # pc
           /\ ParsesNext
           /\ doc # NoFile
           /\ LET state == parsedPlans[doc] IN
               \/ todoIndex + 1 > Len(state.todos)
               \/ ~state.todos[todoIndex + 1].done
               \/ state.hasBlocked)
          => /\ reviewRuns' = reviewRuns
             /\ pc' # "reviewer"
             /\ ~StartsReview]_vars

\* the reviewer runs a second time, on a plan that has the todo done and no
\* todo blocked
C29_Witness ==
    /\ pc = "reviewer"
    /\ inflight # <<>>
    /\ inflight[1].role = "reviewer"
    /\ reviewRuns = 2
    /\ workerRuns = 2
    /\ extEdits = 0
    /\ todoDone(parsedPlans[doc], todoIndex)
    /\ ~parsedPlans[doc].hasBlocked

\* C30: when processTodo has returned "approved", a prompt of this processing
\* has gone to the reviewer session of the todo, and to no other session as
\* reviewer; the approval comes from the parse after the reviewer's prompt of the
\* running iteration, also for a todo that no worker prompt was sent for.
C30_ApprovedOnlyAfterReview ==
    (pc = "returned" /\ result = "approved") =>
        /\ reviewRuns >= 1
        /\ reviewRuns = iteration
        /\ sentTo.reviewer = {reviewerSessionId}
        /\ reviewerSessionId # workerSessionId
        /\ ~isFirstReviewRun
        /\ inflight = <<>>
        /\ lastLog = "approved"

\* approved with no worker prompt: the todo was done at the first parse of its
\* processing, and the reviewer ran once
C30_Witness ==
    /\ pc = "returned"
    /\ result = "approved"
    /\ workerRuns = 0
    /\ reviewRuns = 1
    /\ iteration = 1

(***************************************************************************)
(* The decision after a review, the first worker prompt, the snapshot and  *)
(* the iteration limit.                                                    *)
(***************************************************************************)
\* the todo in hand in the parse of the plan as it is now: <<>> when the index
\* is out of the list
targetNow ==
    IF doc # NoFile /\ todoIndex + 1 <= Len(parsedPlans[doc].todos)
    THEN <<parsedPlans[doc].todos[todoIndex + 1]>>
    ELSE <<>>

\* C31: the step after a review decides by the done flag of the todo in hand
\* alone. Done: processTodo returns "approved", with or without
\* hasReviewFeedback on the todo. Not done (or not in the list): the iteration is
\* counted and the loop goes on, with or without hasReviewFeedback, and nothing
\* is returned in that step.
C31_DecisionByDoneOnly ==
    [][ProgramStepAt("afterReview") =>
          LET done == targetNow # <<>> /\ targetNow[1].done IN
          /\ done => /\ pc' = "returned"
                     /\ result' = "approved"
                     /\ iteration' = iteration
          /\ ~done => /\ pc' = "iteration"
                      /\ iteration' = iteration + 1
                      /\ result' = result
          /\ inflight' = <<>>
          /\ reviewRuns' = reviewRuns
          /\ workerRuns' = workerRuns]_vars

\* a todo that is done and has review feedback was approved
C31_Witness ==
    /\ pc = "returned"
    /\ result = "approved"
    /\ extEdits = 0
    /\ targetNow # <<>>
    /\ targetNow[1].done
    /\ targetNow[1].hasReviewFeedback

\* this step sends a prompt to the worker
StartsWorker ==
    /\ inflight = <<>>
    /\ inflight' # <<>>
    /\ inflight'[1].role = "worker"

\* C32: hasExistingFeedback is the hasReviewFeedback of the todo in the snapshot
\* the driver reads just before it calls processTodo; when it is TRUE, the first
\* worker prompt of the todo is the resume prompt, and it goes to the worker
\* session created for this todo, the last but one the service has created,
\* which has been sent nothing before.
C32_FirstPromptResumesOnFeedback ==
    [][/\ (ProgramStepAt("loop") /\ pc' = "createWorker") =>
            /\ todoIndex' = currentIndex[1]
            /\ hasExistingFeedback' =
                   parsedPlans[doc].todos[currentIndex[1] + 1].hasReviewFeedback
       /\ (StartsWorker /\ workerRuns = 0 /\ hasExistingFeedback) =>
            /\ isFirstWorkerRun
            /\ inflight'[1].prompt = PROMPTS.resume
            /\ inflight'[1].session = workerSessionId
            /\ workerSessionId = nSessions - 1
            /\ sentTo.worker = {}
            /\ workerSessionId \notin sentTo.reviewer
            /\ workerRuns' = 1]_vars

\* the first prompt of the run is the resume prompt, to the first session
C32_Witness ==
    /\ pc = "worker"
    /\ hasExistingFeedback
    /\ workerRuns = 1
    /\ reviewRuns = 0
    /\ nSessions = 2
    /\ inflight[1].prompt = PROMPTS.resume
    /\ inflight[1].session = 1
    /\ extEdits = 0

\* C33: in the PlanState returned no todo is both done and blocked; allDone
\* comes with hasBlocked = FALSE and no nextTodoIndex; a nextTodoIndex comes with
\* allDone = FALSE, and is the index of a todo of the list that is neither done
\* nor blocked.
C33_SnapshotConsistent ==
    planState # <<>> =>
        LET todos == returned.todos IN
        /\ \A k \in 1..Len(todos) : ~(todos[k].done /\ todos[k].blocked)
        /\ returned.allDone =>
               /\ ~returned.hasBlocked
               /\ returned.nextTodoIndex = None
               /\ Len(todos) > 0
        /\ isSome(returned.nextTodoIndex) =>
               /\ ~returned.allDone
               /\ returned.nextTodoIndex[1] + 1 \in 1..Len(todos)
               /\ ~todos[returned.nextTodoIndex[1] + 1].done
               /\ ~todos[returned.nextTodoIndex[1] + 1].blocked

\* a list with a done, a blocked and a pending todo, in this order
C33_Witness ==
    /\ planState # <<>>
    /\ Len(returned.todos) = 3
    /\ returned.todos[1].done
    /\ returned.todos[2].blocked
    /\ returned.nextTodoIndex = Some(2)
    /\ returned.hasBlocked
    /\ ~returned.allDone

\* C34: with maxIterationsPerTodo below 1 no prompt is ever sent. The first
\* eligible todo gets its two sessions, processTodo returns "max_iterations"
\* from them, no other session is created, and the run ends with its final
\* status; when nobody has edited the plan the todo is pending in it still.
C34_LimitBelowOne ==
    /\ inflight = <<>>
    /\ workerRuns = 0
    /\ reviewRuns = 0
    /\ sentTo = [worker |-> {}, reviewer |-> {}]
    /\ nSessions <= 2
    /\ result \in {"none", "max_iterations"}
    /\ pc \in {"iteration", "returned"} =>
           /\ nSessions = 2
           /\ workerSessionId = 1
           /\ reviewerSessionId = 2
    /\ result = "max_iterations" =>
           /\ pc \in {"returned", "final", "done"}
           /\ nSessions = 2
           /\ outcome \in {"running", "returned", "PlanNotFoundError"}
    /\ (result = "max_iterations" /\ pc = "done" /\ outcome = "returned") =>
           /\ tally # <<>>
           /\ extEdits = 0 =>
                  /\ lastLog = "final_status"
                  /\ tally[1].pending >= 1
                  /\ targetNow # <<>>
                  /\ ~targetNow[1].done
                  /\ ~targetNow[1].blocked

\* a run with the limit -1 has ended: two sessions, no prompt, the todo pending
C34_Witness ==
    /\ pc = "done"
    /\ outcome = "returned"
    /\ result = "max_iterations"
    /\ maxIterationsPerTodo = -1
    /\ nSessions = 2
    /\ extEdits = 0
    /\ tally # <<>>
    /\ tally[1].pending >= 1

====
